---- MODULE Spec2Model ----
(***************************************************************************)
(* Model of the connection-ramp benchmark of brandur/connections-test      *)
(* (src/main.go): the main goroutine of func main, the worker goroutines   *)
(* it launches per ramp step, func establishConnection and func run.       *)
(* The database/sql handle, the pq driver and the tachymeter are           *)
(* collaborators: every call on them that returns an error in Go has both  *)
(* outcomes here, chosen nondeterministically.                             *)
(***************************************************************************)
EXTENDS Integers, Sequences, FiniteSets, TLC

\* ---------------------------------------------------------------- bounds
\* numLoops is 1000, numTables 50 and the per-phase statement count 10 in
\* the source; the model runs the same code over smaller values.
numLoops == 3
numTables == 2
numRows == 1
\* distinct underlying causes a failed db.Conn can report
NumCauses == 2
\* resolution of rand.Float64(): a draw is d/DrawUnits for d in 0 .. DrawUnits-1
DrawUnits == 2

\* ------------------------------------------------------ program constants
connRetries == 5

\* the zero value of *sql.Conn in make([]*sql.Conn, numLoops)
Nil == 0

Slots == 0 .. (numLoops - 1)
\* the configurations run: numTables within numLoops, and numTables beyond it
TableCounts == {numTables, numLoops + 1}
Causes == 1 .. NumCauses
Min(a, b) == IF a < b THEN a ELSE b

VARIABLES
  tableCount,  \* the value of the program variable numTables in this run
  pc,          \* position of the main goroutine in func main
  i,           \* the loop variable i of the loop main is in
  j,           \* the loop variable j of the launch loop
  dI,          \* the loop variable i of the deferred function running
  conns,       \* conns[slot]: handle held by the slot, Nil when none
  nextHandle,  \* identity of the next *sql.Conn the pool hands out
  open,        \* handles handed out and never closed
  closeCalls,  \* sequence of handles Close was called on, in call order
  ecI,         \* establishConnection: loop variable i (attempt index)
  ecLog,       \* establishConnection: outcome of each attempt of this call
  ecSleeps,    \* establishConnection: number of draws of each sleep
  ecSlept,     \* establishConnection: total time slept by this call, in draw units
  ecRet,       \* establishConnection: what the call returned to its caller
  tables,      \* indices of the tables created and not dropped
  dropCalls,   \* sequence of table indices a DROP was issued for
  defers,      \* main's stack of registered deferred functions, top first
  panicking,   \* main is unwinding because of a panic
  fatal,       \* what the first panic was about ("none" when none)
  exitStatus,  \* process exit status once pc = "exited" (-1 before)
  header,      \* the CSV header line was written to stderr
  rows,        \* first column of each CSV data line written, in order
  reported,    \* what the last "loop n" report showed
  warmed,      \* slots the warm-up loop has called run on, in order
  units,       \* units[slot]: the invocation of run on that slot, if any
  wg,          \* counter of the step's sync.WaitGroup
  tSize,       \* Size of the step's tachymeter
  tCount,      \* Count of the step's tachymeter
  tTimes,      \* Times of the step's tachymeter (ring of tSize samples)
  numErrors,   \* the step's numErrors
  launched,    \* slots a goroutine was launched on in this step, in order
  failed,      \* slots whose goroutine got an error from run in this step
  inTx,        \* handles with a transaction begun and not committed
  dbClosed,    \* db.Close() returned nil
  logged       \* number of error lines written by non-fatal paths

vars == << tableCount, warmed, pc, i, j, dI, conns, nextHandle, open, closeCalls, ecI, ecLog,
           ecSleeps, ecSlept, ecRet, tables, dropCalls, defers, panicking, fatal,
           exitStatus, header, rows, reported, units, wg, tSize, tCount,
           tTimes, numErrors, launched, failed, inTx, dbClosed, logged >>

mainVars == << pc, i, j, dI, defers, panicking, fatal, exitStatus >>
connVars == << conns, nextHandle, open, closeCalls >>
ecVars == << ecI, ecLog, ecSleeps, ecSlept, ecRet >>
tableVars == << tables, dropCalls >>
outVars == << header, rows, reported >>
stepVars == << wg, tSize, tCount, tTimes, numErrors, launched, failed >>
meterVars == << wg, tSize, tCount, tTimes, numErrors, launched >>

IdleUnit == [phase |-> "idle", k |-> 0, conn |-> Nil, workerNum |-> 0,
             table |-> 0, err |-> "none", go |-> FALSE, dur |-> "zero"]
NoRet == [kind |-> "none", conn |-> Nil, cause |-> 0]

Init ==
  /\ tableCount \in TableCounts
  /\ warmed = << >>
  /\ pc = "establish" /\ i = 0 /\ j = 0 /\ dI = 0
  /\ conns = [s \in Slots |-> Nil]
  /\ nextHandle = 1 /\ open = {} /\ closeCalls = << >>
  /\ ecI = 0 /\ ecLog = << >> /\ ecSleeps = << >> /\ ecRet = NoRet
  /\ ecSlept = 0
  /\ tables = {} /\ dropCalls = << >>
  /\ defers = << >> /\ panicking = FALSE /\ fatal = "none" /\ exitStatus = -1
  /\ header = FALSE /\ rows = << >>
  /\ reported = [n |-> 0, samples |-> 0, errors |-> 0]
  /\ units = [s \in Slots |-> IdleUnit]
  /\ wg = 0 /\ tSize = 0 /\ tCount = 0 /\ tTimes = << >> /\ numErrors = 0
  /\ launched = << >> /\ failed = {}
  /\ inTx = {} /\ dbClosed = FALSE /\ logged = 0

\* ------------------------------------------------------ panic and defers
\* Go runs the registered deferred functions, last registered first, when
\* main returns or panics; a panicking process exits with status 2.
Unwind(ds, p) ==
  /\ panicking' = p
  /\ dI' = 0
  /\ IF ds = << >>
       THEN /\ pc' = "exited"
            /\ defers' = ds
            /\ exitStatus' = IF p THEN 2 ELSE 0
       ELSE /\ pc' = Head(ds)
            /\ defers' = Tail(ds)
            /\ exitStatus' = exitStatus

Panic(what) ==
  /\ fatal' = IF fatal = "none" THEN what ELSE fatal
  /\ Unwind(defers, TRUE)

\* ---------------------------------------------------- establishConnection
InEstablish == pc \in {"establish", "reacquire"} /\ ecRet.kind = "none"

\* the attempts the retry loop allows: for i := 0; i < connRetries; i++
AttemptAllowed(a) == a < connRetries

\* mutant: the last attempt is taken to be the one after the loop's bound
IsLastAttempt_OffByOne(a) == a = connRetries

\* the attempt after which the error is returned: i == connRetries-1
IsLastAttempt(a) == a = connRetries - 1

\* the cause the returned error wraps: err of the attempt that just failed
ReturnedCause(log, c) == c

\* db.Conn returned err == nil: return conn, nil
EstablishSucceed ==
  /\ InEstablish /\ AttemptAllowed(ecI)
  /\ ecLog' = Append(ecLog, 0)
  /\ ecRet' = [kind |-> "conn", conn |-> nextHandle, cause |-> 0]
  /\ open' = open \cup {nextHandle}
  /\ nextHandle' = nextHandle + 1
  /\ UNCHANGED << ecI, ecSleeps, ecSlept, conns, closeCalls,
                  mainVars, tableVars,
                  outVars, stepVars, units, inTx, dbClosed, logged >>
  /\ UNCHANGED << tableCount, warmed >>

\* mutant: for j := 0; j <= i+1; j++
DrawCount_OneMore(a) == a + 2

\* the draws of the sleep after the failed attempt a: for j := 0; j < i+1; j++
DrawCount(a) == a + 1

\* sleepTime += rand.Float64(), once per j: every sequence of n draws
DrawSeqs(n) == [1 .. n -> 0 .. (DrawUnits - 1)]

RECURSIVE SumDraws(_, _)
SumDraws(ds, n) == IF n = 0 THEN 0 ELSE ds[n] + SumDraws(ds, n - 1)

\* the values sleepTime can have after the draws of the failed attempt a
SleepTimesOf ==
  [a \in 0 .. (connRetries - 1) |->
     { SumDraws(ds, DrawCount(a)) : ds \in DrawSeqs(DrawCount(a)) }]

SleepTimes(a) == SleepTimesOf[a]

\* db.Conn failed before the last attempt: sleep the sum of i+1 draws, retry.
\* time.Duration(sleepTime * 10^9) keeps the sum, to the nanosecond.
EstablishRetry ==
  /\ InEstablish /\ AttemptAllowed(ecI) /\ ~IsLastAttempt(ecI)
  /\ \E c \in Causes : ecLog' = Append(ecLog, c)
  /\ ecSleeps' = Append(ecSleeps, DrawCount(ecI))
  /\ \E sleepTime \in SleepTimes(ecI) : ecSlept' = ecSlept + sleepTime
  /\ ecI' = ecI + 1
  /\ UNCHANGED << ecRet, connVars, mainVars, tableVars, outVars, stepVars,
                  units, inTx, dbClosed, logged >>
  /\ UNCHANGED << tableCount, warmed >>

\* db.Conn failed on the last attempt: return nil, "Error opening connection"
EstablishFail ==
  /\ InEstablish /\ AttemptAllowed(ecI) /\ IsLastAttempt(ecI)
  /\ \E c \in Causes :
       /\ ecLog' = Append(ecLog, c)
       /\ ecRet' = [kind |-> "err", conn |-> Nil,
                    cause |-> ReturnedCause(ecLog, c)]
  /\ UNCHANGED << ecI, ecSleeps, ecSlept, connVars, mainVars,
                  tableVars, outVars,
                  stepVars, units, inTx, dbClosed, logged >>
  /\ UNCHANGED << tableCount, warmed >>

ClearEc ==
  /\ ecI' = 0 /\ ecLog' = << >> /\ ecSleeps' = << >> /\ ecRet' = NoRet
  /\ ecSlept' = 0

\* ------------------------------------------- main: initial establishment
\* conns[i], err = establishConnection(db); a failure panics before any
\* deferred function is registered. After the loop the closing of the
\* connections is deferred.
InitEstablished ==
  /\ pc = "establish" /\ ecRet.kind = "conn"
  /\ conns' = [conns EXCEPT ![i] = ecRet.conn]
  /\ ClearEc
  /\ IF i + 1 < numLoops
       THEN /\ i' = i + 1
            /\ UNCHANGED << pc, defers >>
       ELSE /\ i' = 0
            /\ pc' = "create"
            /\ defers' = << "closeConns" >> \o defers
  /\ UNCHANGED << j, dI, panicking, fatal, exitStatus, nextHandle, open,
                  closeCalls, tableVars, outVars, stepVars, units, inTx,
                  dbClosed, logged >>
  /\ UNCHANGED << tableCount, warmed >>

InitEstablishFailed ==
  /\ pc = "establish" /\ ecRet.kind = "err"
  /\ conns' = [conns EXCEPT ![i] = Nil]
  /\ ClearEc
  /\ Panic("acquire")
  /\ UNCHANGED << i, j, nextHandle, open, closeCalls, tableVars, outVars,
                  stepVars, units, inTx, dbClosed, logged >>
  /\ UNCHANGED << tableCount, warmed >>

\* ------------------------------------------------- main: creating tables
\* for i := 0; i < numTables; i++ { conns[i].ExecContext(CREATE TABLE) }
CreateTableOk ==
  /\ pc = "create" /\ i < tableCount /\ i \in Slots
  /\ tables' = tables \cup {i}
  /\ i' = i + 1
  /\ UNCHANGED << pc, j, dI, defers, panicking, fatal, exitStatus, connVars,
                  ecVars, dropCalls, outVars, stepVars, units, inTx,
                  dbClosed, logged >>
  /\ UNCHANGED << tableCount, warmed >>

\* the statement fails, or conns[i] is out of range: panic
CreateTableFail ==
  /\ pc = "create" /\ i < tableCount
  /\ Panic(IF i \in Slots THEN "create" ELSE "index")
  /\ UNCHANGED << i, j, connVars, ecVars, tableVars, outVars, stepVars,
                  units, inTx, dbClosed, logged >>
  /\ UNCHANGED << tableCount, warmed >>

\* the loop is over: the dropping of the tables is deferred
CreateDone ==
  /\ pc = "create" /\ ~(i < tableCount)
  /\ defers' = << "dropTables" >> \o defers
  /\ pc' = "warmup"
  /\ i' = 0
  /\ UNCHANGED << j, dI, panicking, fatal, exitStatus, connVars, ecVars,
                  tableVars, outVars, stepVars, units, inTx, dbClosed,
                  logged >>
  /\ UNCHANGED << tableCount, warmed >>

\* ------------------------------------------------------------- func run
\* tableNum := workerNum % numTables
TableNum(workerNum) == workerNum % tableCount

\* the invocation run(conn, workerNum), about to call conn.BeginTx
StartRun(conn, workerNum, asGo) ==
  [phase |-> "begin", k |-> 0, conn |-> conn, workerNum |-> workerNum,
   table |-> TableNum(workerNum), err |-> "none", go |-> asGo,
   dur |-> "zero"]

RunPhases == {"begin", "insert", "select", "delete", "commit"}

\* where run is after the statement of phase ph, index k, succeeded; the
\* last return is time.Since(start), nil
AfterOk(u) ==
  CASE u.phase = "begin"  -> [u EXCEPT !.phase = "insert", !.k = 0]
    [] u.phase = "insert" -> IF u.k + 1 < numRows
                               THEN [u EXCEPT !.k = u.k + 1]
                               ELSE [u EXCEPT !.phase = "select", !.k = 0]
    [] u.phase = "select" -> IF u.k + 1 < numRows
                               THEN [u EXCEPT !.k = u.k + 1]
                               ELSE [u EXCEPT !.phase = "delete", !.k = 0]
    [] u.phase = "delete" -> IF u.k + 1 < numRows
                               THEN [u EXCEPT !.k = u.k + 1]
                               ELSE [u EXCEPT !.phase = "commit", !.k = 0]
    [] u.phase = "commit" -> [u EXCEPT !.phase = "returned", !.k = 0,
                                       !.dur = "since"]

\* run returns time.Duration(0) and the error naming the phase
AfterErr(u) ==
  [u EXCEPT !.phase = "returned", !.k = 0, !.err = u.phase, !.dur = "zero"]

\* the transaction state of the connection: BeginTx opens a transaction,
\* tx.Commit ends it whatever it returns, no other path of run ends it
TxAfterOk(u) ==
  CASE u.phase = "begin"  -> inTx \cup {u.conn}
    [] u.phase = "commit" -> inTx \ {u.conn}
    [] OTHER              -> inTx

\* mutant: a failing call is followed by tx.Rollback()
TxAfterErr_Rollback(u) == inTx \ {u.conn}

TxAfterErr(u) == IF u.phase = "commit" THEN inTx \ {u.conn} ELSE inTx

\* the next call of run on slot s (BeginTx, a statement, Commit) succeeds
UnitStep(s) ==
  /\ units[s].phase \in RunPhases
  /\ units' = [units EXCEPT ![s] = AfterOk(units[s])]
  /\ inTx' = TxAfterOk(units[s])
  /\ UNCHANGED << mainVars, connVars, ecVars, tableVars, outVars, stepVars,
                  dbClosed, logged >>
  /\ UNCHANGED << tableCount, warmed >>

\* the next call of run on slot s fails: run returns at once
UnitFail(s) ==
  /\ units[s].phase \in RunPhases
  /\ units' = [units EXCEPT ![s] = AfterErr(units[s])]
  /\ inTx' = TxAfterErr(units[s])
  /\ failed' = IF units[s].go THEN failed \cup {s} ELSE failed
  /\ UNCHANGED << mainVars, connVars, ecVars, tableVars, outVars, meterVars,
                  dbClosed, logged >>
  /\ UNCHANGED << tableCount, warmed >>

\* ---------------------------------------------------------- main: warm-up
\* mutant: go run(conns[i], i), the loop goes on without the return
WarmupCall_NoWait ==
  /\ pc = "warmup" /\ i < numLoops
  /\ units' = [units EXCEPT ![i] = StartRun(conns[i], i, FALSE)]
  /\ i' = i + 1
  /\ warmed' = Append(warmed, i)
  /\ UNCHANGED << pc, j, dI, defers, panicking, fatal, exitStatus, connVars,
                  ecVars, tableVars, outVars, stepVars, inTx, dbClosed,
                  logged, tableCount >>

\* for i := 0; i < numLoops; i++ { _, err := run(conns[i], i) }
WarmupCall ==
  /\ pc = "warmup" /\ i < numLoops
  /\ units' = [units EXCEPT ![i] = StartRun(conns[i], i, FALSE)]
  /\ pc' = "warmup_run"
  /\ UNCHANGED << i, j, dI, defers, panicking, fatal, exitStatus, connVars,
                  ecVars, tableVars, outVars, stepVars, inTx, dbClosed,
                  logged >>
  /\ warmed' = Append(warmed, i)
  /\ UNCHANGED tableCount

WarmupReturnOk ==
  /\ pc = "warmup_run"
  /\ units[i].phase = "returned" /\ units[i].err = "none"
  /\ units' = [units EXCEPT ![i] = IdleUnit]
  /\ i' = i + 1
  /\ pc' = "warmup"
  /\ UNCHANGED << j, dI, defers, panicking, fatal, exitStatus, connVars,
                  ecVars, tableVars, outVars, stepVars, inTx, dbClosed,
                  logged >>
  /\ UNCHANGED << tableCount, warmed >>

\* if err != nil { panic(err) }
WarmupReturnErr ==
  /\ pc = "warmup_run"
  /\ units[i].phase = "returned" /\ units[i].err # "none"
  /\ units' = [units EXCEPT ![i] = IdleUnit]
  /\ Panic("warmup")
  /\ UNCHANGED << i, j, connVars, ecVars, tableVars, outVars, stepVars,
                  inTx, dbClosed, logged >>
  /\ UNCHANGED << tableCount, warmed >>

\* the loop is over: the CSV header goes to stderr, the ramp loop starts
WarmupDone ==
  /\ pc = "warmup" /\ ~(i < numLoops)
  /\ header' = TRUE
  /\ pc' = "ramp"
  /\ i' = 0
  /\ UNCHANGED << j, dI, defers, panicking, fatal, exitStatus, connVars,
                  ecVars, tableVars, rows, reported, stepVars, units, inTx,
                  dbClosed, logged >>
  /\ UNCHANGED << tableCount, warmed >>

\* ------------------------------------------------- main: one ramp step
\* mutant: the connection is not given back to the pool
CloseHandle_Leak(h) ==
  /\ closeCalls' = Append(closeCalls, h)
  /\ open' = open

\* err := conns[i].Close(): whatever it returns, the handle is gone
CloseHandle(h) ==
  /\ closeCalls' = Append(closeCalls, h)
  /\ open' = open \ {h}

RampCloseOk ==
  /\ pc = "ramp" /\ i < numLoops
  /\ CloseHandle(conns[i])
  /\ pc' = "reacquire"
  /\ UNCHANGED << i, j, dI, defers, panicking, fatal, exitStatus, conns,
                  nextHandle, ecVars, tableVars, outVars, stepVars, units,
                  inTx, dbClosed, logged >>
  /\ UNCHANGED << tableCount, warmed >>

\* if err != nil { panic(err) }
RampCloseFail ==
  /\ pc = "ramp" /\ i < numLoops
  /\ CloseHandle(conns[i])
  /\ Panic("close")
  /\ UNCHANGED << i, j, conns, nextHandle, ecVars, tableVars, outVars,
                  stepVars, units, inTx, dbClosed, logged >>
  /\ UNCHANGED << tableCount, warmed >>

\* mutant: wg.Add(i)
WgAdd_OffByOne(n) == n

\* wg.Add(i + 1)
WgAdd(n) == n + 1
\* tachymeter.New(&tachymeter.Config{Size: i + 1})
TachSize(n) == n + 1
\* mutant: for j := 0; j < i; j++
LaunchMore_OneFewer(n, m) == m < n

\* for j := 0; j < i+1; j++
LaunchMore(n, m) == m < n + 1

\* mutant: conns[0], err = establishConnection(db)
RampReacquired_SlotZero ==
  /\ pc = "reacquire" /\ ecRet.kind = "conn"
  /\ conns' = [conns EXCEPT ![0] = ecRet.conn]
  /\ ClearEc
  /\ wg' = WgAdd(i)
  /\ tSize' = TachSize(i)
  /\ tCount' = 0
  /\ tTimes' = [x \in 0 .. (TachSize(i) - 1) |-> 0]
  /\ numErrors' = 0
  /\ launched' = << >>
  /\ failed' = {}
  /\ j' = 0
  /\ pc' = "launch"
  /\ UNCHANGED << i, dI, defers, panicking, fatal, exitStatus, nextHandle,
                  open, closeCalls, tableVars, outVars, units, inTx,
                  dbClosed, logged, tableCount, warmed >>

\* conns[i], err = establishConnection(db) returned a connection; then the
\* step's WaitGroup, tachymeter and numErrors are declared and wg.Add runs
RampReacquired ==
  /\ pc = "reacquire" /\ ecRet.kind = "conn"
  /\ conns' = [conns EXCEPT ![i] = ecRet.conn]
  /\ ClearEc
  /\ wg' = WgAdd(i)
  /\ tSize' = TachSize(i)
  /\ tCount' = 0
  /\ tTimes' = [x \in 0 .. (TachSize(i) - 1) |-> 0]
  /\ numErrors' = 0
  /\ launched' = << >>
  /\ failed' = {}
  /\ j' = 0
  /\ pc' = "launch"
  /\ UNCHANGED << i, dI, defers, panicking, fatal, exitStatus, nextHandle,
                  open, closeCalls, tableVars, outVars, units, inTx,
                  dbClosed, logged >>
  /\ UNCHANGED << tableCount, warmed >>

\* it returned nil and an error: conns[i] is nil, then panic(err)
RampReacquireFailed ==
  /\ pc = "reacquire" /\ ecRet.kind = "err"
  /\ conns' = [conns EXCEPT ![i] = Nil]
  /\ ClearEc
  /\ Panic("acquire")
  /\ UNCHANGED << i, j, nextHandle, open, closeCalls, tableVars, outVars,
                  stepVars, units, inTx, dbClosed, logged >>
  /\ UNCHANGED << tableCount, warmed >>

\* mutant: every goroutine is given the handle of slot 0
CapturedConn_Shared(cs, m) == cs[0]

\* conn := conns[j]: the handle the goroutine of iteration j captures
CapturedConn(cs, m) == cs[m]

\* go func() {...}(): a goroutine holding conn, not yet scheduled
Launch ==
  /\ pc = "launch" /\ LaunchMore(i, j)
  /\ units' = [units EXCEPT ![j] =
       [IdleUnit EXCEPT !.phase = "spawned", !.conn = CapturedConn(conns, j),
                        !.go = TRUE]]
  /\ launched' = Append(launched, j)
  /\ j' = j + 1
  /\ UNCHANGED << pc, i, dI, defers, panicking, fatal, exitStatus, connVars,
                  ecVars, tableVars, outVars, wg, tSize, tCount, tTimes,
                  numErrors, failed, inTx, dbClosed, logged >>
  /\ UNCHANGED << tableCount, warmed >>

LaunchDone ==
  /\ pc = "launch" /\ ~LaunchMore(i, j)
  /\ pc' = "wait"
  /\ UNCHANGED << i, j, dI, defers, panicking, fatal, exitStatus, connVars,
                  ecVars, tableVars, outVars, stepVars, units, inTx,
                  dbClosed, logged >>
  /\ UNCHANGED << tableCount, warmed >>

\* the second argument of run(conn, i) in the goroutine: the closure reads
\* main's loop variable i, not the launch index
WorkerNumArg(n, s) == n

\* the goroutine of slot s is scheduled and calls run(conn, i)
GoStart(s) ==
  /\ units[s].phase = "spawned"
  /\ units' = [units EXCEPT ![s] =
       StartRun(units[s].conn, WorkerNumArg(i, s), TRUE)]
  /\ UNCHANGED << mainVars, connVars, ecVars, tableVars, outVars, stepVars,
                  inTx, dbClosed, logged >>
  /\ UNCHANGED << tableCount, warmed >>

\* t.AddTime(elapsed): Times[(atomic.AddUint64(&Count, 1) - 1) % Size] = t.
\* The sample is tagged with the slot whose unit measured it.
AddTime(s) ==
  /\ tCount' = tCount + 1
  /\ tTimes' = [tTimes EXCEPT ![tCount % tSize] = s + 1]
  /\ UNCHANGED numErrors

\* mutant: the else is missing, a failed unit's duration is added as well
AddError_AlsoSamples(s) ==
  /\ numErrors' = numErrors + 1
  /\ tCount' = tCount + 1
  /\ tTimes' = [tTimes EXCEPT ![tCount % tSize] = s + 1]

\* atomic.AddInt32(&numErrors, 1) and the error line on stderr
AddError(s) ==
  /\ numErrors' = numErrors + 1
  /\ UNCHANGED << tCount, tTimes >>

\* mutant: only a failed BeginTx is treated as an error
TakesErrorBranch_BeginOnly(u) == u.err = "begin"

\* which branch the goroutine takes on run's result: if err != nil
TakesErrorBranch(u) == u.err # "none"

\* run returned in the goroutine of slot s
GoRecord(s) ==
  /\ units[s].go /\ units[s].phase = "returned"
  /\ IF TakesErrorBranch(units[s]) THEN AddError(s) ELSE AddTime(s)
  /\ units' = [units EXCEPT ![s].phase = "recorded"]
  /\ UNCHANGED << mainVars, connVars, ecVars, tableVars, outVars, wg, tSize,
                  launched, failed, inTx, dbClosed, logged >>
  /\ UNCHANGED << tableCount, warmed >>

\* mutant: wg.Done() is not deferred and the error path returns before it
DoneDelta_SkipOnError(u) == IF u.err # "none" THEN 0 ELSE 1

\* defer wg.Done() runs on every path of the goroutine
DoneDelta(u) == 1

\* the goroutine ends
GoDone(s) ==
  /\ units[s].go /\ units[s].phase = "recorded"
  /\ wg' = wg - DoneDelta(units[s])
  /\ units' = [units EXCEPT ![s] = IdleUnit]
  /\ UNCHANGED << mainVars, connVars, ecVars, tableVars, outVars, tSize,
                  tCount, tTimes, numErrors, launched, failed, inTx,
                  dbClosed, logged >>
  /\ UNCHANGED << tableCount, warmed >>

\* wg.Wait() returns when the counter is zero
WaitOver(c) == c = 0

WaitReturn ==
  /\ pc = "wait" /\ WaitOver(wg)
  /\ pc' = "report"
  /\ UNCHANGED << i, j, dI, defers, panicking, fatal, exitStatus, connVars,
                  ecVars, tableVars, outVars, stepVars, units, inTx,
                  dbClosed, logged >>
  /\ UNCHANGED << tableCount, warmed >>

\* t.Calc() works on the samples held: Count of them, at most Size
SamplesHeld == Min(tCount, tSize)

\* mutant: the CSV line carries i
RowNumber_ZeroBased(n) == n

\* the first column of the CSV line of loop iteration n: i+1
RowNumber(n) == n + 1

\* metrics := t.Calc(), the "loop n" report on stdout, the CSV line on stderr
Report ==
  /\ pc = "report"
  /\ reported' = [n |-> RowNumber(i), samples |-> SamplesHeld,
                  errors |-> numErrors]
  /\ rows' = Append(rows, RowNumber(i))
  /\ i' = i + 1
  /\ pc' = "ramp"
  /\ UNCHANGED << j, dI, defers, panicking, fatal, exitStatus, connVars,
                  ecVars, tableVars, header, stepVars, units, inTx, dbClosed,
                  logged >>
  /\ UNCHANGED << tableCount, warmed >>

\* ------------------------------------------------- main: after the ramp
\* err = db.Close() returned nil: main returns, the deferred functions run
DbCloseOk ==
  /\ pc = "ramp" /\ ~(i < numLoops)
  /\ dbClosed' = TRUE
  /\ Unwind(defers, FALSE)
  /\ UNCHANGED << i, j, fatal, connVars, ecVars, tableVars, outVars,
                  stepVars, units, inTx, logged >>
  /\ UNCHANGED << tableCount, warmed >>

\* panic(fmt.Errorf("Error closing database: %v", err))
DbCloseFail ==
  /\ pc = "ramp" /\ ~(i < numLoops)
  /\ Panic("dbclose")
  /\ UNCHANGED << i, j, connVars, ecVars, tableVars, outVars, stepVars,
                  units, inTx, dbClosed, logged >>
  /\ UNCHANGED << tableCount, warmed >>

\* ------------------------------------- deferred: dropping the tables
\* for i := 0; i < numTables; i++ { conns[i].ExecContext(DROP TABLE) }
\* A method call on a nil *sql.Conn, or an index out of range, panics.
DerefPanics(cs, x) == x \notin Slots \/ cs[x] = Nil

DeferDropOk ==
  /\ pc = "dropTables" /\ dI < tableCount
  /\ ~DerefPanics(conns, dI) /\ conns[dI] \in open
  /\ dropCalls' = Append(dropCalls, dI)
  /\ tables' = tables \ {dI}
  /\ dI' = dI + 1
  /\ UNCHANGED << pc, i, j, defers, panicking, fatal, exitStatus, connVars,
                  ecVars, outVars, stepVars, units, inTx, dbClosed, logged >>
  /\ UNCHANGED << tableCount, warmed >>

\* mutant: the first failed DROP ends the deferred function
DeferDropErr_Stops ==
  /\ pc = "dropTables" /\ dI < tableCount
  /\ ~DerefPanics(conns, dI)
  /\ dropCalls' = Append(dropCalls, dI)
  /\ logged' = logged + 1
  /\ Unwind(defers, panicking)
  /\ UNCHANGED << i, j, fatal, connVars, ecVars, tables, outVars, stepVars,
                  units, inTx, dbClosed, tableCount, warmed >>

\* the error is written to stderr and the loop goes on
DeferDropErr ==
  /\ pc = "dropTables" /\ dI < tableCount
  /\ ~DerefPanics(conns, dI)
  /\ dropCalls' = Append(dropCalls, dI)
  /\ logged' = logged + 1
  /\ dI' = dI + 1
  /\ UNCHANGED << pc, i, j, defers, panicking, fatal, exitStatus, connVars,
                  ecVars, tables, outVars, stepVars, units, inTx, dbClosed >>
  /\ UNCHANGED << tableCount, warmed >>

DeferDropPanic ==
  /\ pc = "dropTables" /\ dI < tableCount
  /\ DerefPanics(conns, dI)
  /\ Panic("nilderef")
  /\ UNCHANGED << i, j, connVars, ecVars, tableVars, outVars, stepVars,
                  units, inTx, dbClosed, logged >>
  /\ UNCHANGED << tableCount, warmed >>

DeferDropDone ==
  /\ pc = "dropTables" /\ ~(dI < tableCount)
  /\ Unwind(defers, panicking)
  /\ UNCHANGED << i, j, fatal, connVars, ecVars, tableVars, outVars,
                  stepVars, units, inTx, dbClosed, logged >>
  /\ UNCHANGED << tableCount, warmed >>

\* ---------------------------------- deferred: closing the connections
\* for i := 0; i < numLoops; i++ { err := conns[i].Close() }
DeferCloseOk ==
  /\ pc = "closeConns" /\ dI < numLoops
  /\ ~DerefPanics(conns, dI) /\ conns[dI] \in open
  /\ CloseHandle(conns[dI])
  /\ dI' = dI + 1
  /\ UNCHANGED << pc, i, j, defers, panicking, fatal, exitStatus, conns,
                  nextHandle, ecVars, tableVars, outVars, stepVars, units,
                  inTx, dbClosed, logged >>
  /\ UNCHANGED << tableCount, warmed >>

\* the error is written to stderr and the loop goes on
DeferCloseErr ==
  /\ pc = "closeConns" /\ dI < numLoops
  /\ ~DerefPanics(conns, dI)
  /\ CloseHandle(conns[dI])
  /\ logged' = logged + 1
  /\ dI' = dI + 1
  /\ UNCHANGED << pc, i, j, defers, panicking, fatal, exitStatus, conns,
                  nextHandle, ecVars, tableVars, outVars, stepVars, units,
                  inTx, dbClosed >>
  /\ UNCHANGED << tableCount, warmed >>

DeferClosePanic ==
  /\ pc = "closeConns" /\ dI < numLoops
  /\ DerefPanics(conns, dI)
  /\ Panic("nilderef")
  /\ UNCHANGED << i, j, connVars, ecVars, tableVars, outVars, stepVars,
                  units, inTx, dbClosed, logged >>
  /\ UNCHANGED << tableCount, warmed >>

DeferCloseDone ==
  /\ pc = "closeConns" /\ ~(dI < numLoops)
  /\ Unwind(defers, panicking)
  /\ UNCHANGED << i, j, fatal, connVars, ecVars, tableVars, outVars,
                  stepVars, units, inTx, dbClosed, logged >>
  /\ UNCHANGED << tableCount, warmed >>

Next ==
  \/ EstablishSucceed
  \/ EstablishRetry
  \/ EstablishFail
  \/ InitEstablished
  \/ InitEstablishFailed
  \/ CreateTableOk
  \/ CreateTableFail
  \/ CreateDone
  \/ WarmupCall
  \/ WarmupReturnOk
  \/ WarmupReturnErr
  \/ WarmupDone
  \/ RampCloseOk
  \/ RampCloseFail
  \/ RampReacquired
  \/ RampReacquireFailed
  \/ Launch
  \/ LaunchDone
  \/ \E s \in Slots : GoStart(s)
  \/ \E s \in Slots : UnitStep(s)
  \/ \E s \in Slots : UnitFail(s)
  \/ \E s \in Slots : GoRecord(s)
  \/ \E s \in Slots : GoDone(s)
  \/ WaitReturn
  \/ Report
  \/ DbCloseOk
  \/ DbCloseFail
  \/ DeferDropOk
  \/ DeferDropErr
  \/ DeferDropPanic
  \/ DeferDropDone
  \/ DeferCloseOk
  \/ DeferCloseErr
  \/ DeferClosePanic
  \/ DeferCloseDone

Spec == Init /\ [][Next]_vars

\* The process keeps running: main executes its next statement, the Go
\* scheduler runs every runnable goroutine, and every call on the database
\* returns (with a result or an error).
FairSpec == Init /\ [][Next]_vars /\ WF_vars(Next)

\* ================================================================ claims
Range(q) == {q[x] : x \in 1 .. Len(q)}
UpTo(n) == [x \in 1 .. n |-> x - 1]
Running(s) == units[s].go /\ units[s].phase # "idle"
Terminated(s) == s \in Range(launched) /\ units[s].phase = "idle"
RampPcs == {"ramp", "reacquire", "launch", "wait", "report"}

\* C1: in step n = i+1 the driver launches exactly n units, one per slot
\* of 0 .. n-1 in this order, and it is at the report of step n only when
\* every one of them has terminated; while a unit of the step is still
\* running, main is launching or waiting and nothing of step n is reported.
C1_BarrierJoin ==
  /\ pc = "launch" => launched = UpTo(j) /\ j <= i + 1
  /\ pc \in {"wait", "report"} => launched = UpTo(i + 1)
  /\ pc = "report" => \A s \in Slots : units[s].phase = "idle"
  /\ \A s \in Slots :
       Running(s) => /\ pc \in {"launch", "wait"}
                     /\ s \in Range(launched)
                     /\ Len(rows) = i
                     /\ reported.n # i + 1

\* a report of the last step after some of its units failed and some
\* succeeded
C1_Witness ==
  /\ pc = "report" /\ i = numLoops - 1
  /\ numErrors > 0 /\ tCount > 0

\* C2: the header precedes every row; the rows written are 1, 2, ... in
\* this order, none skipped or repeated; row n is written before the ramp
\* closes the connection of slot n (the close that opens step n+1); once
\* the ramp loop is over exactly numLoops rows are written.
RampOver == (pc = "ramp" /\ ~(i < numLoops)) \/ dbClosed \/ fatal = "dbclose"

C2_RowsAscending ==
  /\ rows = [x \in 1 .. Len(rows) |-> x]
  /\ Len(rows) <= numLoops
  /\ Len(rows) > 0 => header
  /\ pc \in RampPcs =>
       /\ Len(rows) = i
       /\ \A x \in 1 .. Len(closeCalls) : closeCalls[x] = x
       /\ Len(closeCalls) = IF pc = "ramp" THEN i ELSE i + 1
       /\ Len(closeCalls) <= Len(rows) + 1
  /\ RampOver => Len(rows) = numLoops

\* the run reached the pool shutdown with every row written
C2_Witness == dbClosed /\ rows = [x \in 1 .. numLoops |-> x]

\* C3: in every state of a step, under every interleaving, the samples
\* and errors counted so far belong one to one to the units that have
\* recorded their result: a unit that failed has added one error and no
\* sample, a unit that succeeded one sample and no error; the estimator has
\* Size n and never holds more than n samples; at the report
\* samples + errors = n, and that is what the report shows.
SampleSlots == {tTimes[x] - 1 : x \in 0 .. (Min(tCount, tSize) - 1)}
RecordedSlots ==
  {s \in Range(launched) : units[s].phase \in {"recorded", "idle"}}

C3_SamplesPlusErrors ==
  /\ pc \in {"launch", "wait", "report"} =>
       /\ tSize = i + 1
       /\ tCount <= tSize
       /\ Cardinality(SampleSlots) = tCount
       /\ SampleSlots = RecordedSlots \ failed
       /\ numErrors = Cardinality(RecordedSlots \cap failed)
       /\ tCount + numErrors = Cardinality(RecordedSlots)
  /\ pc = "launch" /\ j = 0 => tCount = 0 /\ numErrors = 0
  /\ pc = "report" => SamplesHeld + numErrors = i + 1
  /\ reported.n > 0 => reported.samples + reported.errors = reported.n

\* the report of the last step with units that failed and units that
\* succeeded
C3_Witness ==
  /\ pc = "ramp" /\ reported.n = numLoops
  /\ reported.errors > 0 /\ reported.samples > 0

\* C4: a unit that fails in a timed step changes nothing of its siblings
\* and nothing of main; a unit that has returned is not started again in
\* the step; when all units of the step have ended the barrier opens,
\* whatever number of them failed; main, once at the report, writes the row
\* and goes on to the next step, and it is never unwinding from a panic
\* while it launches, waits or reports.
C4_StateInv ==
  /\ (pc = "wait" /\ \A s \in Slots : units[s].phase = "idle")
       => ENABLED WaitReturn
  /\ pc \in {"launch", "wait", "report"} => ~panicking /\ exitStatus = -1
  /\ \A x, y \in 1 .. Len(launched) : x # y => launched[x] # launched[y]

C4_StepInv ==
  /\ \A s \in Slots :
       (units[s].go /\ units[s].err = "none" /\ units'[s].err # "none") =>
         /\ \A r \in Slots \ {s} : units'[r] = units[r]
         /\ pc' = pc /\ wg' = wg /\ panicking' = panicking
         /\ launched' = launched
  /\ \A s \in Slots :
       (units[s].go /\ units[s].phase \in {"returned", "recorded"}) =>
         units'[s].phase \in {"returned", "recorded", "idle"}
  /\ pc = "report" =>
       /\ pc' = "ramp" /\ i' = i + 1
       /\ rows' = Append(rows, i + 1)
       /\ ~panicking'

C4_FailureIsolated == [] C4_StateInv /\ [][C4_StepInv]_vars

\* a step in which a unit failed and a sibling succeeded was reported and
\* the next step is launching
C4_Witness ==
  /\ pc = "launch" /\ reported.n = i
  /\ reported.errors > 0 /\ reported.samples > 0

\* C5: when every unit of step n failed, main at the report holds no
\* sample and n errors, it is not unwinding, and its next step writes the
\* one row of step n with n errors and returns to the head of the ramp
\* loop.
C5_StateInv ==
  (pc = "report" /\ failed = 0 .. i) =>
     /\ tCount = 0 /\ numErrors = i + 1
     /\ ~panicking
     /\ ENABLED Report
     /\ Len(rows) = i

C5_StepInv ==
  (pc = "report" /\ failed = 0 .. i) =>
     /\ rows' = Append(rows, i + 1)
     /\ reported' = [n |-> i + 1, samples |-> 0, errors |-> i + 1]
     /\ pc' = "ramp" /\ i' = i + 1
     /\ ~panicking' /\ exitStatus' = -1

C5_AllFailStillReports == [] C5_StateInv /\ [][C5_StepInv]_vars

\* every unit of the last step failed, the row was written and the run
\* reached the pool shutdown
C5_Witness ==
  /\ dbClosed /\ Len(rows) = numLoops
  /\ reported = [n |-> numLoops, samples |-> 0, errors |-> numLoops]

\* C6: a call of establishConnection makes at most connRetries (5)
\* attempts; a success is the last attempt of the call; the call returns a
\* connection exactly when its last attempt succeeded, and an error exactly
\* when connRetries attempts failed, the error carrying the cause of the
\* last of them; until then it has returned nothing.
C6_BoundedRetry ==
  /\ Len(ecLog) <= connRetries
  /\ \A x \in 1 .. (Len(ecLog) - 1) : ecLog[x] # 0
  /\ ecRet.kind = "conn" <=> (ecLog # << >> /\ ecLog[Len(ecLog)] = 0)
  /\ ecRet.kind = "err" <=>
       (Len(ecLog) = connRetries /\ \A x \in 1 .. Len(ecLog) : ecLog[x] # 0)
  /\ ecRet.kind = "err" =>
       ecRet.cause = ecLog[connRetries] /\ ecRet.conn = Nil
  /\ ecRet.kind = "conn" => ecRet.conn # Nil /\ ecRet.conn \in open
  /\ ecRet.kind = "none" => Len(ecLog) = ecI /\ ecI < connRetries

\* four failed attempts with differing causes, then the fifth succeeds
C6_Witness ==
  /\ ecRet.kind = "conn" /\ Len(ecLog) = connRetries
  /\ ecLog[1] # ecLog[connRetries - 1]

\* C7: in every timed step the unit running on slot s was invoked with
\* workerNum = s and works on table s mod numTables.
C7_WorkerNumIsSlot ==
  \A s \in Slots :
    (units[s].go /\ units[s].phase \in RunPhases) =>
       /\ units[s].workerNum = s
       /\ units[s].table = s % tableCount

\* C8: the goroutines of a step that have not ended hold pairwise distinct
\* handles, each the live handle of its own slot.
C8_NoSharedHandle ==
  /\ \A s, r \in Slots :
       (Running(s) /\ Running(r) /\ s # r) => units[s].conn # units[r].conn
  /\ \A s \in Slots :
       Running(s) => /\ units[s].conn # Nil
                     /\ units[s].conn = conns[s]
                     /\ units[s].conn \in open

\* all numLoops units of the last step are inside run at the same time
C8_Witness ==
  /\ pc = "wait" /\ i = numLoops - 1
  /\ \A s \in Slots : units[s].go /\ units[s].phase \in RunPhases

\* C9: a process that ends because connection acquisition ran out of
\* retries has non-zero status, has called Close on every connection it
\* had established and has issued a DROP for every table it had created.
C9_CleanupOnAcquireFailure ==
  (pc = "exited" /\ fatal = "acquire") =>
     /\ exitStatus # 0
     /\ open = {}
     /\ tables \subseteq Range(dropCalls)

\* C10: a failed Close of a connection or of the pool is never what makes
\* the process panic, and a process that met no other failure ends with
\* status 0.
C10_CleanupNeverEscalates ==
  /\ fatal \notin {"close", "dbclose"}
  /\ (pc = "exited" /\ fatal \in {"none", "close", "dbclose"})
       => exitStatus = 0

\* C11: before the first ramp step the warm-up runs exactly one unit on
\* each slot 0 .. numLoops-1, one after another: the unit of slot i+1 starts
\* only after the unit of slot i returned, at most one unit executes during
\* warm-up, no estimator exists or receives a duration while it lasts, and
\* the ramp (its first close) starts only with every warm-up unit returned.
WarmupUnit(s) == ~units[s].go /\ units[s].phase # "idle"

C11_WarmupSequential ==
  /\ pc = "warmup" =>
       /\ warmed = UpTo(i)
       /\ \A s \in Slots : units[s].phase = "idle"
  /\ pc = "warmup_run" =>
       /\ warmed = UpTo(i + 1)
       /\ WarmupUnit(i)
       /\ units[i].conn = conns[i] /\ conns[i] \in open
       /\ \A s \in Slots \ {i} : units[s].phase = "idle"
  /\ pc \in {"warmup", "warmup_run"} =>
       /\ tSize = 0 /\ tCount = 0 /\ numErrors = 0
       /\ closeCalls = << >> /\ rows = << >>
  /\ \A s \in Slots : WarmupUnit(s) => (pc = "warmup_run" /\ s = i)
  /\ pc \in RampPcs =>
       /\ warmed = UpTo(numLoops)
       /\ SampleSlots \subseteq Range(launched)
  /\ Len(warmed) <= numLoops

\* the last warm-up unit has returned and the ramp has made its first close
C11_Witness ==
  /\ pc = "reacquire" /\ i = 0 /\ Len(closeCalls) = 1
  /\ warmed = UpTo(numLoops)

\* C12: a run whose ramp completed step numLoops ends with all of the
\* teardown attempted: the pool shutdown was called, every table
\* users_0 .. users_(numTables-1) got one DROP attempt and every slot's
\* connection one Close attempt, whether or not some of them failed.
Done == Len(rows) = numLoops /\ (dbClosed \/ fatal = "dbclose")

C12_TeardownComplete ==
  /\ (pc = "ramp" /\ ~(i < numLoops)) => Len(rows) = numLoops
  /\ Len(rows) = numLoops =>
       (pc \in {"ramp", "dropTables", "closeConns", "exited"}
          /\ tableCount <= numLoops)
  /\ (Len(rows) = numLoops /\ pc \in {"dropTables", "closeConns", "exited"})
       => Done
  /\ (Done /\ pc = "dropTables") => dropCalls = UpTo(dI)
  /\ (Done /\ pc \in {"closeConns", "exited"}) => dropCalls = UpTo(tableCount)
  /\ (Done /\ pc = "closeConns") =>
       \A s \in Slots : s < dI => conns[s] \in Range(closeCalls)
  /\ (Done /\ pc = "exited") =>
       /\ \A s \in Slots : conns[s] # Nil /\ conns[s] \in Range(closeCalls)
       /\ open = {}

\* the run completed the ramp, closed the pool, and went through the whole
\* teardown although a DROP and a Close in it failed
C12_Witness ==
  /\ pc = "exited" /\ Len(rows) = numLoops /\ dbClosed
  /\ logged >= 2 /\ tables # {}
  /\ dropCalls = UpTo(tableCount)
  /\ \A s \in Slots : conns[s] \in Range(closeCalls)

\* C13: step n = i+1 first closes the connection of slot i and only then
\* acquires a new one for it; no other slot changes. Handles are numbered
\* in the order of their acquisition, so slot s holds s+1 from the initial
\* loop until step s+1 and numLoops+s+1 afterwards: each slot is replaced
\* exactly once, and during step n the slots n .. numLoops-1 still hold
\* their warm-up connections.
WarmupHandle(s) == s + 1
RampHandle(s) == numLoops + s + 1

C13_ReplaceOneSlot ==
  /\ pc \in {"launch", "wait", "report"} =>
       \A s \in Slots :
         conns[s] = IF s <= i THEN RampHandle(s) ELSE WarmupHandle(s)
  /\ (pc = "ramp" \/ (pc = "reacquire" /\ ecRet.kind # "err")) =>
       \A s \in Slots :
         conns[s] = IF s < i THEN RampHandle(s) ELSE WarmupHandle(s)
  /\ pc = "ramp" =>
       /\ closeCalls = [x \in 1 .. Min(i, numLoops) |-> WarmupHandle(x - 1)]
       /\ nextHandle = RampHandle(i)
  /\ pc = "reacquire" =>
       /\ closeCalls = [x \in 1 .. (i + 1) |-> WarmupHandle(x - 1)]
       /\ WarmupHandle(i) \notin open
       /\ ecRet.kind = "none" => nextHandle = RampHandle(i)
       /\ ecRet.kind = "conn" =>
            (ecRet.conn = RampHandle(i) /\ ecRet.conn \in open)

\* the last step runs: every slot has been replaced once, only slot
\* numLoops-1 in this step
C13_Witness ==
  /\ pc = "wait" /\ i = numLoops - 1
  /\ \A s \in Slots : conns[s] = RampHandle(s)
  /\ closeCalls = [x \in 1 .. numLoops |-> WarmupHandle(x - 1)]

\* C14 as stated: provided every acquisition succeeds within its attempts,
\* every close succeeds and every warm-up unit succeeds, a run whose units
\* all terminate reaches the end of the ramp with numLoops rows emitted.
RampDone == pc = "ramp" /\ ~(i < numLoops) /\ Len(rows) = numLoops

C14_TerminatesAsStated ==
  <>(fatal \in {"acquire", "close", "warmup"} \/ RampDone)

\* C14, amended: provided also that all numTables tables are created, the
\* run reaches the end of the ramp with numLoops rows emitted; and the row
\* of step n is emitted only with every unit of step n terminated, so
\* while one of them has not terminated neither that row nor a later one
\* exists.
SetupFailed == fatal \in {"acquire", "create", "index", "warmup"}

C14_NoRowWhileRunning ==
  /\ (\E s \in Slots : Running(s)) =>
       (pc \in {"launch", "wait"} /\ Len(rows) = i)
  /\ pc \in {"launch", "wait", "report"} => Len(rows) = i
  /\ pc = "report" => \A s \in Slots : units[s].phase = "idle"

C14_Terminates ==
  /\ []C14_NoRowWhileRunning
  /\ <>(SetupFailed \/ fatal = "close" \/ RampDone)

\* the ramp has ended with all its rows, units having failed on the way
C14_Witness == RampDone /\ fatal = "none" /\ reported.errors > 0

\* C15: establishConnection sleeps only between two attempts. The sleep
\* after the k-th failed attempt (k = 1 .. 4) sums exactly k draws of
\* [0, 1) and so lasts less than k seconds; no sleep follows the 5th failed
\* attempt or a successful one; one call sleeps at most 4 times, for less
\* than 10 seconds in all. A second is DrawUnits units of time.
Seconds(n) == n * DrawUnits

C15_StateInv ==
  /\ ecSleeps = [k \in 1 .. Len(ecSleeps) |-> k]
  /\ Len(ecSleeps) <= 4
  /\ ecSlept < Seconds(10)
  /\ ecRet.kind = "none" => Len(ecSleeps) = Len(ecLog)
  /\ ecRet.kind = "conn" =>
       /\ Len(ecSleeps) = Len(ecLog) - 1
       /\ ecLog[Len(ecLog)] = 0
  /\ ecRet.kind = "err" =>
       /\ Len(ecLog) = 5 /\ Len(ecSleeps) = 4
       /\ \A x \in 1 .. 5 : ecLog[x] \in Causes

C15_StepInv ==
  (ecSleeps' # ecSleeps /\ ecSleeps' # << >>) =>
     /\ InEstablish /\ ecRet'.kind = "none"
     /\ Len(ecSleeps') = Len(ecSleeps) + 1
     /\ Len(ecLog') = Len(ecSleeps')
     /\ ecLog'[Len(ecLog')] \in Causes
     /\ ecSlept' >= ecSlept
     /\ ecSlept' - ecSlept < Seconds(Len(ecLog'))

C15_BackoffSleeps == []C15_StateInv /\ [][C15_StepInv]_vars

\* a call has failed five times, having slept four times, each time for
\* the longest its draws allow
C15_Witness ==
  /\ ecRet.kind = "err" /\ Len(ecSleeps) = 4
  /\ ecSlept = 10 * (DrawUnits - 1)

\* C16: run goes through begin, numRows inserts, numRows selects (the k-th
\* of the identifier the k-th insert returned), numRows deletes (of the
\* same identifiers) and commit, in this order, and returns a duration and
\* no error only after commit succeeded. The first failing call makes it
\* return at once, with duration 0 and the error, after no further call:
\* there is no rollback, and a transaction that was begun and not
\* committed stays open on the connection.
PhaseRank(u) ==
  CASE u.phase = "begin"    -> 0
    [] u.phase = "insert"   -> 1 + u.k
    [] u.phase = "select"   -> 1 + numRows + u.k
    [] u.phase = "delete"   -> 1 + 2 * numRows + u.k
    [] u.phase = "commit"   -> 1 + 3 * numRows
    [] OTHER                -> 2 + 3 * numRows

StatementPhases == {"insert", "select", "delete"}

C16_StateInv ==
  \A s \in Slots :
    /\ units[s].phase \in StatementPhases => units[s].k < numRows
    /\ units[s].phase \in StatementPhases \cup {"commit"} =>
         units[s].conn \in inTx
    /\ (units[s].phase = "returned" /\ units[s].err = "none") =>
         units[s].dur = "since"
    /\ (units[s].phase = "returned" /\ units[s].err # "none") =>
         /\ units[s].dur = "zero"
         /\ units[s].err \in RunPhases
         /\ units[s].err \in StatementPhases => units[s].conn \in inTx

C16_StepInv ==
  \A s \in Slots :
    (units[s].phase \in RunPhases /\ units'[s] # units[s]) =>
       \/ /\ units'[s].err = "none"
          /\ PhaseRank(units'[s]) = PhaseRank(units[s]) + 1
          /\ units'[s].phase = "returned" <=> units[s].phase = "commit"
          /\ units'[s].phase \in RunPhases \cup {"returned"}
          /\ units[s].phase \notin {"begin", "commit"} => inTx' = inTx
       \/ /\ units'[s].phase = "returned"
          /\ units'[s].err = units[s].phase
          /\ units'[s].dur = "zero"
          /\ units[s].phase # "commit" => inTx' = inTx

C17_NoLeftoverTransaction ==
  \A s \in Slots :
    (units[s].go /\ units[s].phase \in {"spawned", "begin"})
      => units[s].conn \notin inTx

\* C18: at no point of the run are more than numLoops connections checked
\* out of the pool. Throughout the ramp every one of the numLoops slots
\* holds an open connection, also the slots that take no part in the step:
\* numLoops connections are open, and numLoops-1 only from the close of a
\* step until establishConnection has returned its new connection.
C18_OpenConnections ==
  /\ Cardinality(open) <= numLoops
  /\ pc \in {"ramp", "launch", "wait", "report"} =>
       /\ Cardinality(open) = numLoops
       /\ \A s \in Slots : conns[s] \in open
       /\ \A s, r \in Slots : s # r => conns[s] # conns[r]
  /\ pc = "reacquire" =>
       /\ \A s \in Slots \ {i} : conns[s] \in open
       /\ Cardinality(open) =
            IF ecRet.kind = "conn" THEN numLoops ELSE numLoops - 1

\* the last step has closed its slot and not yet got the new connection,
\* a first attempt having failed
C18_Witness ==
  /\ pc = "reacquire" /\ i = numLoops - 1 /\ ecRet.kind = "none"
  /\ Len(ecLog) = 1
  /\ Cardinality(open) = numLoops - 1

\* C19: on every exit path no call is made on a slot whose handle is nil
\* or already closed, no handle is closed twice, and no handle is closed
\* while a unit executes on it: the deferred drops and closes touch only
\* live, idle handles.
C19_OnlyLiveHandles ==
  /\ fatal # "nilderef"
  /\ \A x, y \in 1 .. Len(closeCalls) : x # y => closeCalls[x] # closeCalls[y]
  /\ pc = "dropTables" =>
       \A x \in Range(dropCalls) : x \in Slots /\ conns[x] \in open
  /\ \A s \in Slots : units[s].phase \in RunPhases => units[s].conn \in open
  /\ pc \in {"dropTables", "closeConns"} =>
       \A s \in Slots : units[s].phase = "idle"

\* C20: in every configuration, numTables > numLoops included, and with no
\* call failing, the setup creates exactly the tables 0 .. numTables-1
\* after the connections are established and before the first warm-up
\* unit, and the teardown issues exactly one DROP for each created table,
\* on a connection that is still open.
C20_TablesCreatedAndDropped ==
  /\ fatal # "index"
  /\ tables # {} => \A s \in Slots : conns[s] # Nil
  /\ (pc \in {"warmup", "warmup_run"} /\ fatal = "none") =>
       tables = 0 .. (tableCount - 1)
  /\ (pc = "dropTables" /\ fatal = "none") =>
       \A x \in Range(dropCalls) : conns[x] \in open
  /\ (pc = "exited" /\ fatal \in {"none", "index"}) =>
       /\ tables \subseteq Range(dropCalls)
       /\ \A x, y \in 1 .. Len(dropCalls) :
            x # y => dropCalls[x] # dropCalls[y]
====
